---- MODULE Spec2Model ----
(***************************************************************************)
(* The FastAPI backend of socratic_tutor_advanced_v2.py: the three         *)
(* in-memory stores and the four endpoints that read and write them.       *)
(*                                                                         *)
(* Texts are sequences.  A model reply is a sequence of lexemes: "{", "}", *)
(* ",", " " (whitespace), "x" (any other character) and one lexeme per     *)
(* JSON member ("q=Q" is the text  "question": "Q").  A student text and   *)
(* an Authorization header are sequences of characters.                    *)
(***************************************************************************)
EXTENDS Integers, Sequences, FiniteSets, TLC

VARIABLES CONVERSATIONS, REASONING_TRACE, SESSION_PROFILES, clock, last, pending

vars == <<CONVERSATIONS, REASONING_TRACE, SESSION_PROFILES, clock, last, pending>>
stores == <<CONVERSATIONS, REASONING_TRACE, SESSION_PROFILES>>

\* ------------------------------------------------------------------ bounds
MaxTurns == 2
MaxReplyLen == 4
MaxTextLen == 5
MaxSummaryTurns == 14
MaxCleanTurns == 1
MaxRequests == 2

\* ------------------------------------------------------- program constants
PrefixLen == 8
FlawPenalty == 8
MaxScore == 100
DefaultConfidence == 50
MaxDigits == 3
MinTail == 3
MaxTerms == 6

\* ------------------------------------------------------------ Python values
\* Every Python value the handlers hold has one shape: its type, and the
\* number, the text or the items that type carries.
PyVal(t, num, txt, its) == [type |-> t, n |-> num, s |-> txt, items |-> its]
None == PyVal("null", 0, <<>>, <<>>)
Num(i) == PyVal("number", i, <<>>, <<>>)
Real(i) == PyVal("real", i, <<>>, <<>>)
Str(txt) == PyVal("string", 0, txt, <<>>)
List(its) == PyVal("list", 0, <<>>, its)

\* Python's truth value: None, 0, "" and [] are false.
Truthy(v) ==
    CASE v.type = "null" -> FALSE
      [] v.type = "number" -> v.n # 0
      [] v.type = "real" -> TRUE
      [] v.type = "string" -> v.s # <<>>
      [] v.type = "list" -> v.items # <<>>
      [] OTHER -> TRUE

\* v or d
OrElse(v, d) == IF Truthy(v) THEN v ELSE d

\* A list is not hashable: it cannot be a dict key.
Hashable(v) == v.type # "list"

NoneLit == Str(<<"(none)">>)
AutoLit == Str(<<"(auto)">>)

\* --------------------------------------------------------------- sequences
RECURSIVE SeqsUpTo(_, _)
SeqsUpTo(S, n) ==
    IF n = 0 THEN {<<>>}
    ELSE LET shorter == SeqsUpTo(S, n - 1)
         IN  shorter \cup {Append(s, c) : s \in {t \in shorter : Len(t) = n - 1}, c \in S}

Take(s, n) == SubSeq(s, 1, IF Len(s) < n THEN Len(s) ELSE n)

Positions(s, c) == {i \in 1..Len(s) : s[i] = c}

Min(S) == CHOOSE m \in S : \A k \in S : m <= k
Max(S) == CHOOSE m \in S : \A k \in S : m >= k

\* Mutant of strip: the leading whitespace only (str.lstrip).
strip_left(s) ==
    LET solid == {i \in 1..Len(s) : s[i] # " "}
    IN  IF solid = {} THEN <<>> ELSE SubSeq(s, Min(solid), Len(s))

\* str.strip(): the text without its leading and trailing whitespace.
strip(s) ==
    LET solid == {i \in 1..Len(s) : s[i] # " "}
    IN  IF solid = {} THEN <<>> ELSE SubSeq(s, Min(solid), Max(solid))

\* ------------------------------------------------------------------ header
\* header.split(" "): the pieces between single spaces, empty pieces kept.
RECURSIVE split(_)
split(h) ==
    LET sp == Positions(h, " ")
    IN  IF sp = {} THEN <<h>>
        ELSE <<SubSeq(h, 1, Min(sp) - 1)>> \o split(SubSeq(h, Min(sp) + 1, Len(h)))

NoHeader == [present |-> FALSE, value |-> <<>>]
Hdr(h) == [present |-> TRUE, value |-> h]

\* Mutant of extract_token: the last piece of the header, not the second.
extract_last_piece(header) ==
    IF ~header.present \/ header.value = <<>> THEN <<>>
    ELSE split(header.value)[Len(split(header.value))]

extract_token(header) ==
    IF ~header.present \/ header.value = <<>> THEN <<>>
    ELSE IF Positions(header.value, " ") # {} THEN split(header.value)[2]
    ELSE header.value

\* Mutant of user_id_of: the whole token.
whole_token(token) == token

user_id_of(token) == Take(token, PrefixLen)

\* ------------------------------------------------------- the external model
\* call_openai_chat returns the reply's text or raises.
Failed == [ok |-> FALSE, text |-> <<>>]
Reply(txt) == [ok |-> TRUE, text |-> txt]

\* ------------------------------------------------------------ JSON members
\* The member each member lexeme stands for.
MemberLexemes ==
    {"q=Q", "q=null", "d=D", "d=(none)", "d=empty", "f=[F]", "f=[F,G]",
     "c=70", "c=0", "c=150", "c=-5", "c=null", "c=high", "c=7.5", "m=M", "m=empty",
     "terms=[A,B]", "terms=[B]", "terms=[A,[B],C]", "terms=5", "other=1"}

MemberKey(lex) ==
    CASE lex \in {"q=Q", "q=null"} -> "question"
      [] lex \in {"d=D", "d=(none)", "d=empty"} -> "detection"
      [] lex \in {"f=[F]", "f=[F,G]"} -> "fallacies"
      [] lex \in {"c=70", "c=0", "c=150", "c=-5", "c=null", "c=high", "c=7.5"} -> "confidence"
      [] lex \in {"m=M", "m=empty"} -> "meta"
      [] lex \in {"terms=[A,B]", "terms=[B]", "terms=[A,[B],C]", "terms=5"} -> "terms"
      [] OTHER -> "other"

MemberValue(lex) ==
    CASE lex = "q=Q" -> Str(<<"Q">>)
      [] lex = "q=null" -> None
      [] lex = "d=D" -> Str(<<"D">>)
      [] lex = "d=(none)" -> NoneLit
      [] lex = "d=empty" -> Str(<<>>)
      [] lex = "f=[F]" -> List(<<Str(<<"F">>)>>)
      [] lex = "f=[F,G]" -> List(<<Str(<<"F">>), Str(<<"G">>)>>)
      [] lex = "c=70" -> Num(70)
      [] lex = "c=0" -> Num(0)
      [] lex = "c=150" -> Num(150)
      [] lex = "c=-5" -> Num(-5)
      [] lex = "c=null" -> None
      [] lex = "c=high" -> Str(<<"h", "i", "g", "h">>)
      [] lex = "c=7.5" -> Real(7)
      [] lex = "m=M" -> Str(<<"M">>)
      [] lex = "m=empty" -> Str(<<>>)
      [] lex = "terms=[A,B]" -> List(<<Str(<<"A">>), Str(<<"B">>)>>)
      [] lex = "terms=[B]" -> List(<<Str(<<"B">>)>>)
      [] lex = "terms=[A,[B],C]" -> List(<<Str(<<"A">>), List(<<>>), Str(<<"C">>)>>)
      [] lex = "terms=5" -> Num(5)
      [] OTHER -> Num(1)

\* ------------------------------------------------------------------- dicts
EmptyDict == [k \in {} |-> None]
Put(d, k, v) == [x \in DOMAIN d \cup {k} |-> IF x = k THEN v ELSE d[x]]
Get(d, k, default) == IF k \in DOMAIN d THEN d[k] ELSE default

\* ------------------------------------------------- re.search(r"\{.*\}", re.S)
\* From the first "{" to the last "}" after it: the match is greedy and "."
\* matches every character.
NoMatch == [found |-> FALSE, text |-> <<>>]

search_braces(raw) ==
    LET opens == Positions(raw, "{")
        closes == {j \in Positions(raw, "}") : opens # {} /\ j > Min(opens)}
    IN  IF opens = {} \/ closes = {} THEN NoMatch
        ELSE [found |-> TRUE, text |-> SubSeq(raw, Min(opens), Max(closes))]

\* -------------------------------------------------------------- json.loads
\* The decoder on a text that starts with "{": members separated by commas,
\* whitespace between the tokens, a later member replacing an earlier one of
\* the same key, and nothing but whitespace after the closing brace.  It
\* raises (ok = FALSE) on anything else.
Raised == [ok |-> FALSE, data |-> EmptyDict]

RECURSIVE scan_object(_, _, _, _)
scan_object(s, i, mode, data) ==
    IF i > Len(s) THEN
        IF mode = "end" THEN [ok |-> TRUE, data |-> data] ELSE Raised
    ELSE IF s[i] = " " THEN scan_object(s, i + 1, mode, data)
    ELSE IF mode = "end" THEN Raised
    ELSE IF mode \in {"first", "member"} /\ s[i] \in MemberLexemes THEN
        scan_object(s, i + 1, "after", Put(data, MemberKey(s[i]), MemberValue(s[i])))
    ELSE IF mode \in {"first", "after"} /\ s[i] = "}" THEN
        scan_object(s, i + 1, "end", data)
    ELSE IF mode = "after" /\ s[i] = "," THEN scan_object(s, i + 1, "member", data)
    ELSE Raised

json_loads(s) ==
    IF s = <<>> \/ s[1] # "{" THEN Raised ELSE scan_object(s, 2, "first", EmptyDict)

\* ------------------------------------------------ re.search(r"(\d{1,3})")
Digits == {"0", "1", "2", "3", "4", "5", "6", "7", "8", "9"}

DigitValue(c) ==
    CASE c = "0" -> 0 [] c = "1" -> 1 [] c = "2" -> 2 [] c = "3" -> 3 [] c = "4" -> 4
      [] c = "5" -> 5 [] c = "6" -> 6 [] c = "7" -> 7 [] c = "8" -> 8 [] OTHER -> 9

\* int() of a run of digits
RECURSIVE int(_)
int(ds) ==
    IF ds = <<>> THEN 0
    ELSE 10 * int(SubSeq(ds, 1, Len(ds) - 1)) + DigitValue(ds[Len(ds)])

\* The first run of one to three digits: it starts at the first digit and
\* takes as many of the next digits as it can, up to three.
search_digits(c_raw) ==
    LET ds == {i \in 1..Len(c_raw) : c_raw[i] \in Digits}
    IN  IF ds = {} THEN NoMatch
        ELSE LET first == Min(ds)
                 run == {k \in 1..MaxDigits :
                            \A j \in first..(first + k - 1) : j \in ds}
             IN  [found |-> TRUE, text |-> SubSeq(c_raw, first, first + Max(run) - 1)]

min(a, b) == IF a < b THEN a ELSE b
max(a, b) == IF a > b THEN a ELSE b

\* ------------------------------ re.findall(r"\b[A-Z][a-zA-Z]{3,}\b", text)
UpperChars ==
    {"A", "B", "C", "D", "E", "F", "G", "H", "I", "J", "K", "L", "M",
     "N", "O", "P", "Q", "R", "S", "T", "U", "V", "W", "X", "Y", "Z"}
LowerChars ==
    {"a", "b", "c", "d", "e", "f", "g", "h", "i", "j", "k", "l", "m",
     "n", "o", "p", "q", "r", "s", "t", "u", "v", "w", "x", "y", "z"}
Letters == UpperChars \cup LowerChars
WordChars == Letters \cup Digits \cup {"_"}

\* \b at position i (between character i-1 and character i): exactly one of
\* the two is a word character; the ends of the text count as non-word.
IsWordAt(text, i) == i >= 1 /\ i <= Len(text) /\ text[i] \in WordChars
boundary(text, i) == IsWordAt(text, i - 1) # IsWordAt(text, i)

\* The end of the match that starts at i, or 0: an upper-case letter, then
\* the longest run of at least three letters that ends at a \b, the regex
\* giving letters back one at a time until \b holds.
match_word(text, i) ==
    IF ~(boundary(text, i) /\ i <= Len(text) /\ text[i] \in UpperChars) THEN 0
    ELSE LET ends == {e \in (i + MinTail)..Len(text) :
                         /\ \A j \in (i + 1)..e : text[j] \in Letters
                         /\ boundary(text, e + 1)}
         IN  IF ends = {} THEN 0 ELSE Max(ends)

\* findall scans from the left and resumes after each match.
RECURSIVE findall_from(_, _)
findall_from(text, i) ==
    IF i > Len(text) THEN <<>>
    ELSE LET e == match_word(text, i)
         IN  IF e = 0 THEN findall_from(text, i + 1)
             ELSE <<SubSeq(text, i, e)>> \o findall_from(text, e + 1)

findall_words(text) == findall_from(text, 1)

\* Mutant of fromkeys: every word kept.
keep_all(words) == words

\* list(dict.fromkeys(words)): each word once, at its first place.
RECURSIVE fromkeys(_)
fromkeys(words) ==
    IF words = <<>> THEN <<>>
    ELSE LET init == fromkeys(SubSeq(words, 1, Len(words) - 1))
             w == words[Len(words)]
         IN  IF \E k \in 1..Len(init) : init[k] = w THEN init ELSE Append(init, w)

fallback_terms(text) == Take(fromkeys(findall_words(text)), MaxTerms)

\* ------------------------------------------------------------- the request
\* DialogueRequest: mode and topic only reach the prompt, persona is kept in
\* the profile, student_text is kept in the stores.
Req(persona, text) == [persona |-> persona, student_text |-> Str(text)]
NoReq == Req("", <<>>)
NoReplies == <<>>

\* What a handler did: the request, the HTTP status, the steps it ran in their
\* order, and the body it returned.
Outcome(endpoint, header, req, replies, status, steps, body) ==
    [endpoint |-> endpoint, header |-> header, req |-> req, replies |-> replies,
     status |-> status, steps |-> steps, body |-> body]

Unauthorized == [detail |-> "Missing Authorization header with token"]
ServerError == [detail |-> "OpenAI error"]

Calls(steps) == Cardinality({i \in 1..Len(steps) : steps[i] \in {"call1", "call2", "call3"}})

\* ------------------------------------------------------- dialogue: parsing
Annotation(question, detection, fallacies, confidence, meta) ==
    [question |-> question, detection |-> detection, fallacies |-> fallacies,
     confidence |-> confidence, meta |-> meta]

\* Lines 110-126: the fields of the JSON object in the reply, or the defaults.
parse_reply(raw) ==
    LET m == search_braces(raw)
        defaults == Annotation(Str(strip(raw)), NoneLit, List(<<>>), None, AutoLit)
        loaded == json_loads(m.text)
    IN  IF m.found /\ loaded.ok THEN
            Annotation(Get(loaded.data, "question", defaults.question),
                       Get(loaded.data, "detection", defaults.detection),
                       Get(loaded.data, "fallacies", List(<<>>)),
                       Get(loaded.data, "confidence", None),
                       Get(loaded.data, "meta", defaults.meta))
        ELSE defaults

\* Lines 129-142: the estimator's reply to a confidence.
clamp(n) == min(MaxScore, max(0, n))

\* Mutant of estimate_confidence: a reply without a number counts as 0.
estimate_or_zero(c_raw) ==
    IF ~c_raw.ok THEN Num(DefaultConfidence)
    ELSE LET c_m == search_digits(c_raw.text)
         IN  IF c_m.found THEN Num(clamp(int(c_m.text))) ELSE Num(0)

estimate_confidence(c_raw) ==
    IF ~c_raw.ok THEN Num(DefaultConfidence)
    ELSE LET c_m == search_digits(c_raw.text)
         IN  IF c_m.found THEN Num(clamp(int(c_m.text))) ELSE Num(DefaultConfidence)

needs_estimate(confidence) == confidence = None

final_confidence(confidence, c_raw) ==
    IF needs_estimate(confidence) THEN estimate_confidence(c_raw) ELSE confidence

\* Lines 160-172: one more for each term, until a term that cannot be a key
\* raises; what was counted before it stays counted.
RECURSIVE count_terms(_, _, _)
count_terms(counts, terms, i) ==
    IF i > Len(terms) \/ ~Hashable(terms[i]) THEN counts
    ELSE count_terms(Put(counts, terms[i], Get(counts, terms[i], 0) + 1), terms, i + 1)

\* Iterating a string gives its characters; iterating a number or None raises.
iterate(v) ==
    CASE v.type = "list" -> v.items
      [] v.type = "string" -> [i \in 1..Len(v.s) |-> Str(<<v.s[i]>>)]
      [] OTHER -> <<>>

update_concepts(counts, t_raw) ==
    LET t_m == search_braces(t_raw.text)
        t_json == json_loads(t_m.text)
    IN  IF t_raw.ok /\ t_m.found /\ t_json.ok
        THEN count_terms(counts, iterate(Get(t_json.data, "terms", List(<<>>))), 1)
        ELSE counts

\* ------------------------------------------------------- dialogue: records
\* Mutant of NewProfile: the request's persona is dropped.
blank_profile(persona) == [persona |-> "", history_count |-> 0, concept_counts |-> EmptyDict]

NewProfile(persona) == [persona |-> persona, history_count |-> 0, concept_counts |-> EmptyDict]

Turn(role, text, ts, user) == [role |-> role, text |-> text, ts |-> ts, user |-> user]

TraceRecord(req, a, confidence, ts, user) ==
    [student_claim |-> req.student_text,
     interpretation |-> OrElse(a.meta, AutoLit),
     detected_issue |-> OrElse(a.detection, NoneLit),
     detected_fallacies |-> a.fallacies,
     confidence |-> confidence,
     follow_up |-> a.question,
     ts |-> ts,
     user |-> user]

DialogueBody(a, confidence) ==
    [new_turns |-> <<[role |-> "ai", text |-> a.question]>>, status |-> "ok",
     detected_fallacies |-> a.fallacies, confidence |-> confidence]

\* Mutant of ensure_profile: a new user's profile replaces the store.
fresh_profiles(profiles, user_id, persona) ==
    IF user_id \in DOMAIN profiles THEN profiles
    ELSE Put(EmptyDict, user_id, NewProfile(persona))

ensure_profile(profiles, user_id, persona) ==
    IF user_id \in DOMAIN profiles THEN profiles
    ELSE Put(profiles, user_id, NewProfile(persona))

\* Mutant of bump_history: the count is set, not added to.
set_history(profile) == [profile EXCEPT !.history_count = 1]

bump_history(profile) == [profile EXCEPT !.history_count = @ + 1]

DialogueSteps(estimated) ==
    <<"call1">> \o (IF estimated THEN <<"call2">> ELSE <<>>)
        \o <<"append_student", "append_ai", "append_trace", "call3", "history_count">>

\* ---------------------------------------------------- POST /api/dialogue
\* raw, c_raw and t_raw are what the three calls of the external model give.
dialogue(header, req, raw, c_raw, t_raw) ==
    LET token == extract_token(header)
        user_id == user_id_of(token)
        replies == <<raw, c_raw, t_raw>>
        profiles == ensure_profile(SESSION_PROFILES, user_id, req.persona)
        a == parse_reply(raw.text)
        confidence == final_confidence(a.confidence, c_raw)
        counted == [profiles[user_id] EXCEPT
                       !.concept_counts = update_concepts(@, t_raw)]
    IN  IF token = <<>> THEN
            /\ last' = Outcome("dialogue", header, req, NoReplies, 401, <<>>, Unauthorized)
            /\ UNCHANGED <<stores, clock, pending>>
        ELSE IF ~raw.ok THEN
            /\ SESSION_PROFILES' = profiles
            /\ last' = Outcome("dialogue", header, req, <<raw>>, 500, <<"call1">>, ServerError)
            /\ UNCHANGED <<CONVERSATIONS, REASONING_TRACE, clock, pending>>
        ELSE
            /\ CONVERSATIONS' = CONVERSATIONS
                    \o <<Turn("student", req.student_text, clock, user_id),
                         Turn("ai", a.question, clock + 1, user_id)>>
            /\ REASONING_TRACE' =
                    Append(REASONING_TRACE, TraceRecord(req, a, confidence, clock, user_id))
            /\ SESSION_PROFILES' = Put(profiles, user_id, bump_history(counted))
            /\ clock' = clock + 2
            /\ last' = Outcome("dialogue", header, req, replies, 200,
                               DialogueSteps(needs_estimate(a.confidence)),
                               DialogueBody(a, confidence))
            /\ UNCHANGED pending

\* ------------------------------------------------------- GET /api/trace
RECURSIVE filter_user(_, _)
filter_user(trace, user_id) ==
    IF trace = <<>> THEN <<>>
    ELSE (IF Head(trace).user = user_id THEN <<Head(trace)>> ELSE <<>>)
             \o filter_user(Tail(trace), user_id)

\* Lines 181-186 and 191-196: the caller's records, or all of them.
view(trace, header) ==
    LET token == extract_token(header)
    IN  IF token # <<>> THEN filter_user(trace, user_id_of(token)) ELSE trace

get_trace(header) ==
    /\ last' = Outcome("trace", header, NoReq, NoReplies, 200, <<>>,
                       [trace |-> view(REASONING_TRACE, header)])
    /\ UNCHANGED <<stores, clock, pending>>

\* ----------------------------------------------------- GET /api/summary
is_flaw(t) == Truthy(t.detected_issue) /\ t.detected_issue # NoneLit

RECURSIVE count_flaws(_)
count_flaws(trace) ==
    IF trace = <<>> THEN 0
    ELSE (IF is_flaw(Head(trace)) THEN 1 ELSE 0) + count_flaws(Tail(trace))

\* Mutant of score_of: no floor at 0.
score_unclamped(flaws) == MaxScore - flaws * FlawPenalty

score_of(flaws) == max(0, MaxScore - flaws * FlawPenalty)

summary(trace) ==
    IF trace = <<>> THEN
        [summary |-> "No reasoning trace available.", score |-> MaxScore, flaws |-> 0, total |-> 0]
    ELSE [summary |-> "During this dialogue", score |-> score_of(count_flaws(trace)),
          flaws |-> count_flaws(trace), total |-> Len(trace)]

get_summary(header) ==
    /\ last' = Outcome("summary", header, NoReq, NoReplies, 200, <<>>,
                       summary(view(REASONING_TRACE, header)))
    /\ UNCHANGED <<stores, clock, pending>>

\* ------------------------------------------------ POST /api/extract_terms
TermsBody(words) == Put(EmptyDict, "terms", List([i \in 1..Len(words) |-> Str(words[i])]))

extract_terms_body(req, content) ==
    LET m == search_braces(content.text)
        loaded == json_loads(m.text)
    IN  IF content.ok /\ m.found /\ loaded.ok THEN loaded.data
        ELSE TermsBody(fallback_terms(req.student_text.s))

extract_terms(header, req, content) ==
    LET token == extract_token(header)
    IN  /\ last' = IF token = <<>>
                   THEN Outcome("extract_terms", header, req, NoReplies, 401, <<>>, Unauthorized)
                   ELSE Outcome("extract_terms", header, req, <<content>>, 200, <<"call1">>,
                                extract_terms_body(req, content))
        /\ UNCHANGED <<stores, clock, pending>>

\* ------------------------------------------------------------------ inputs
\* Authorization headers:  "Bearer alicekey1"  and the bare token "alicekey2"
\* share their first eight characters;  "Bearer "  and  "Bearer  bob"  (two
\* spaces) have an empty second piece.
HdrAlice1 == Hdr(<<"B", "e", "a", "r", "e", "r", " ", "a", "l", "i", "c", "e", "k", "e", "y", "1">>)
HdrAlice2 == Hdr(<<"a", "l", "i", "c", "e", "k", "e", "y", "2">>)
HdrBob == Hdr(<<"B", "e", "a", "r", "e", "r", " ", "b", "o", "b">>)
HdrBlank == Hdr(<<"B", "e", "a", "r", "e", "r", " ">>)
HdrDouble == Hdr(<<"B", "e", "a", "r", "e", "r", " ", " ", "b", "o", "b">>)
HdrEmpty == Hdr(<<>>)

Credentialed == {HdrAlice1, HdrAlice2, HdrBob}
Uncredentialed == {NoHeader, HdrEmpty, HdrBlank, HdrDouble}
Headers == Credentialed \cup Uncredentialed

TextPlato == <<"P", "l", "a", "t", "o", " ", "i", "s", " ", "w", "i", "s", "e">>
ReqPlato == Req("Socrates", TextPlato)
ReqOther == Req("Plato", <<"W", "h", "y">>)

\* Replies to the first call.
RawPlain == Reply(<<" ", "x", " ", "x", " ">>)
RawClean == Reply(<<"{", "q=Q", ",", "c=70", "}">>)
RawFlawed == Reply(<<"x", "{", "q=Q", ",", " ", "d=D", ",", "f=[F]", ",", "m=M", "}", " ">>)

\* Replies to the second call:  "85",  "about 1000%",  "n/a".
ConfEightyFive == Reply(<<"8", "5">>)
ConfThousand == Reply(<<"a", "b", "o", "u", "t", " ", "1", "0", "0", "0", "%">>)
ConfNone == Reply(<<"n", "/", "a">>)
ConfMinus == Reply(<<"-", "5">>)
ConfHigh == Reply(<<"9", "9", "9">>)

\* Replies to the third call.
TermsAB == Reply(<<"{", "terms=[A,B]", "}">>)
TermsB == Reply(<<"x", "{", " ", "terms=[B]", "}">>)
TermsBroken == Reply(<<"{", "terms=[A,B]", "}", "}">>)
TermsPartial == Reply(<<"{", "terms=[A,[B],C]", "}">>)
TermsNumber == Reply(<<"{", "terms=5", "}">>)
TermsMissing == Reply(<<"{", "other=1", "}">>)

\* ------------------------------------------------------ requests in flight
\* A dialogue request that has started and not returned: where it waits (the
\* external call it is suspended at) and the locals it holds.
Requests == 1..MaxRequests

InFlight(pc, header, req, user, a, confidence, ts, status) ==
    [pc |-> pc, header |-> header, req |-> req, user |-> user, a |-> a,
     confidence |-> confidence, ts |-> ts, status |-> status]

NotStarted ==
    InFlight("idle", NoHeader, NoReq, <<>>, Annotation(None, None, None, None, None), None, 0, 0)

\* --------------------------------------------------------------------- Init
NoOutcome == Outcome("none", NoHeader, NoReq, NoReplies, 0, <<>>, <<>>)

Init ==
    /\ CONVERSATIONS = <<>>
    /\ REASONING_TRACE = <<>>
    /\ SESSION_PROFILES = EmptyDict
    /\ clock = 0
    /\ last = NoOutcome
    /\ pending = [r \in Requests |-> NotStarted]

\* ------------------------------------------------------------- Spec: all four
\* endpoints.  Alice calls with two credentials of one user identifier, Bob
\* with another; four headers carry no token.
Caller(header, req) == [header |-> header, req |-> req]

Callers ==
    {Caller(HdrAlice1, ReqPlato), Caller(HdrAlice2, ReqOther), Caller(HdrBob, ReqOther)}
        \cup {Caller(h, ReqPlato) : h \in Uncredentialed}

\* What the three calls give: the first fails; a plain reply, an estimate and
\* terms; an object without a confidence, no estimate and no terms; an object
\* with a confidence, and terms.
Exchanges ==
    {<<Failed, Failed, Failed>>,
     <<RawPlain, ConfEightyFive, TermsAB>>,
     <<RawFlawed, Failed, Failed>>,
     <<RawClean, Failed, TermsB>>}

Readers == {NoHeader, HdrBlank, HdrAlice1, HdrAlice2, HdrBob}

Dialogue ==
    /\ Len(REASONING_TRACE) < MaxTurns
    /\ \E c \in Callers, x \in Exchanges : dialogue(c.header, c.req, x[1], x[2], x[3])

GetTrace == \E header \in Readers : get_trace(header)

GetSummary == \E header \in Readers : get_summary(header)

ExtractTerms ==
    \E c \in Callers, content \in {Failed, TermsAB} : extract_terms(c.header, c.req, content)

Next == Dialogue \/ GetTrace \/ GetSummary \/ ExtractTerms

Spec == Init /\ [][Next]_vars

\* ----------------------------------------- SpecReply: one dialogue exchange,
\* every reply.  The first call gives every text of up to MaxReplyLen lexemes,
\* or the later calls give each of their replies.
ReplyAlphabet == {"{", "}", ",", " ", "x", "q=Q", "d=D", "c=150"}
AllReplies == SeqsUpTo(ReplyAlphabet, MaxReplyLen)

RawFull ==
    Reply(<<"{", "q=Q", ",", "d=empty", ",", "f=[F,G]", ",", "c=null", ",", "m=empty", "}">>)
RawTwice == Reply(<<"{", "q=Q", "}", "x", "{", "c=70", "}">>)
RawNoIssue == Reply(<<"{", "d=(none)", "}">>)
FewReplies ==
    {Failed, RawPlain, RawClean, RawFlawed, RawFull, RawTwice} \cup
        {Reply(<<"{", c, "}">>) : c \in {"c=0", "c=-5", "c=high", "c=7.5", "q=null", "d=(none)"}}
ConfReplies == {Failed, ConfEightyFive, ConfThousand, ConfNone, ConfMinus, ConfHigh, Reply(<<>>)}
TermReplies ==
    {Failed, TermsAB, TermsB, TermsBroken, TermsPartial, TermsNumber, TermsMissing, RawPlain}

AnyReply ==
    /\ REASONING_TRACE = <<>>
    /\ \E raw \in AllReplies :
           dialogue(HdrAlice1, ReqPlato, Reply(raw), ConfEightyFive, TermsAB)

AnyEstimate ==
    /\ REASONING_TRACE = <<>>
    /\ \E raw \in FewReplies, c_raw \in ConfReplies, t_raw \in TermReplies :
           dialogue(HdrBob, ReqOther, raw, c_raw, t_raw)

NextReply == AnyReply \/ AnyEstimate

SpecReply == Init /\ [][NextReply]_vars

\* ------------------------------------ SpecSummary: long traces.  Every reply
\* to Alice names an issue; the few replies to Bob name none.
AliceFlawed ==
    /\ Len(REASONING_TRACE) < MaxSummaryTurns
    /\ dialogue(HdrAlice1, ReqPlato, RawFlawed, Failed, Failed)

BobClean ==
    /\ Len(REASONING_TRACE) < MaxSummaryTurns
    /\ Len(view(REASONING_TRACE, HdrBob)) < MaxCleanTurns
    /\ \E raw \in {RawClean, RawFull, RawNoIssue} :
           dialogue(HdrBob, ReqOther, raw, Failed, Failed)

Summarise == \E header \in {NoHeader, HdrAlice2, HdrBob} : get_summary(header)

NextSummary == AliceFlawed \/ BobClean \/ Summarise

SpecSummary == Init /\ [][NextSummary]_vars

\* -------------------------------------- SpecTerms: one term extraction, on every
\* student text of up to MaxTextLen characters, and on three longer ones.
TextAlphabet == {"A", "b", "1", " "}

\* "Justice and Virtue are both important to Socrates"
TextJustice ==
    <<"J", "u", "s", "t", "i", "c", "e", " ", "a", "n", "d", " ",
      "V", "i", "r", "t", "u", "e", " ", "a", "r", "e", " ", "b", "o", "t", "h", " ",
      "i", "m", "p", "o", "r", "t", "a", "n", "t", " ", "t", "o", " ",
      "S", "o", "c", "r", "a", "t", "e", "s">>

\* "Good,Evil,Good:Form Truth Evil Soul;Mind Idea2 Virtue Logos"
TextMany ==
    <<"G", "o", "o", "d", ",", "E", "v", "i", "l", ",", "G", "o", "o", "d", ":",
      "F", "o", "r", "m", " ", "T", "r", "u", "t", "h", " ", "E", "v", "i", "l", " ",
      "S", "o", "u", "l", ";", "M", "i", "n", "d", " ", "I", "d", "e", "a", "2", " ",
      "V", "i", "r", "t", "u", "e", " ", "L", "o", "g", "o", "s">>

AllTexts == SeqsUpTo(TextAlphabet, MaxTextLen) \cup {TextJustice, TextMany, TextPlato}

AnyText ==
    /\ last = NoOutcome
    /\ \E text \in AllTexts, content \in {Failed, RawPlain, TermsAB, TermsBroken, TermsMissing} :
           extract_terms(HdrAlice1, Req("Socrates", text), content)

NoToken ==
    /\ last = NoOutcome
    /\ \E h \in Uncredentialed : extract_terms(h, ReqPlato, TermsAB)

NextTerms == AnyText \/ NoToken

SpecTerms == Init /\ [][NextTerms]_vars

\* =================================================================== claims
\* What the formulas below read off a finished request.
IsDialogueOk == last.endpoint = "dialogue" /\ last.status = 200
LastTurn == CONVERSATIONS[Len(CONVERSATIONS)]
LastRecord == REASONING_TRACE[Len(REASONING_TRACE)]
RawText == last.replies[1].text

\* The texts of s that are a well-formed JSON object, by where they start.
ObjectsIn(s) ==
    {ij \in (1..Len(s)) \X (1..Len(s)) :
        /\ ij[1] < ij[2]
        /\ s[ij[1]] = "{"
        /\ s[ij[2]] = "}"
        /\ json_loads(SubSeq(s, ij[1], ij[2])).ok}

QuestionObjectsIn(s) ==
    {ij \in ObjectsIn(s) : "question" \in DOMAIN json_loads(SubSeq(s, ij[1], ij[2])).data}

FirstQuestionIn(s) ==
    LET first == CHOOSE ij \in QuestionObjectsIn(s) :
                     \A kl \in QuestionObjectsIn(s) : ij[1] <= kl[1]
    IN  json_loads(SubSeq(s, first[1], first[2])).data["question"]

\* q is s without the whitespace at its two ends.
IsStripped(q, s) ==
    \E i \in 1..(Len(s) + 1), j \in 0..Len(s) :
        /\ q = SubSeq(s, i, j)
        /\ \A k \in 1..Len(s) : (k < i \/ k > j) => s[k] = " "
        /\ q # <<>> => (q[1] # " " /\ q[Len(q)] # " ")

\* C1 (as claimed): when the first reply contains a well-formed JSON object
\* with a question field, whatever surrounds or follows the object, the
\* follow-up returned, the ai Turn's text and the TraceRecord's follow_up are
\* that field's value.
C1_FollowUpIsQuestionField ==
    (IsDialogueOk /\ QuestionObjectsIn(RawText) # {}) =>
        /\ last.body.new_turns[1].text = FirstQuestionIn(RawText)
        /\ LastTurn.text = FirstQuestionIn(RawText)
        /\ LastRecord.follow_up = FirstQuestionIn(RawText)

IsPercent(v) == v.type = "number" /\ v.n \in 0..MaxScore

\* C3 (as claimed): the confidence a successful dialogue call returns, and the
\* confidence of every TraceRecord, is an integer in [0, 100].
C3_ConfidenceInRange ==
    /\ IsDialogueOk => IsPercent(last.body.confidence)
    /\ \A i \in 1..Len(REASONING_TRACE) : IsPercent(REASONING_TRACE[i].confidence)

\* The user identifier each credential stands for: the first eight characters
\* of its token.
IdAlice == <<"a", "l", "i", "c", "e", "k", "e", "y">>
IdBob == <<"b", "o", "b">>
IdOf(header) == IF header = HdrBob THEN IdBob ELSE IdAlice

HistoryCount(profiles, id) == IF id \in DOMAIN profiles THEN profiles[id].history_count ELSE 0

\* C4: a dialogue or extract_terms request whose header is absent or yields
\* an empty token ends with 401, calls the external model not once, and
\* leaves the three stores as they were.
C4_NoTokenNoEffect ==
    [][(last'.endpoint \in {"dialogue", "extract_terms"} /\ last'.header \in Uncredentialed) =>
          /\ last'.status = 401
          /\ Calls(last'.steps) = 0
          /\ last'.steps = <<>>
          /\ CONVERSATIONS' = CONVERSATIONS
          /\ REASONING_TRACE' = REASONING_TRACE
          /\ SESSION_PROFILES' = SESSION_PROFILES]_vars

\* C4 witness: a 401 on a header with an empty second piece, stores not empty.
C4_Witness ==
    /\ last.endpoint = "dialogue"
    /\ last.header = HdrDouble
    /\ last.status = 401
    /\ Len(REASONING_TRACE) = 1
    /\ DOMAIN SESSION_PROFILES = {IdAlice, IdBob}

OthersUntouched(id) ==
    \A other \in DOMAIN SESSION_PROFILES \cup DOMAIN SESSION_PROFILES' :
        other # id =>
            /\ other \in DOMAIN SESSION_PROFILES
            /\ other \in DOMAIN SESSION_PROFILES'
            /\ SESSION_PROFILES'[other] = SESSION_PROFILES[other]

\* C5 (as claimed): every dialogue call made with a credential adds exactly 1
\* to the turn count of the credential's user and leaves every other user's
\* profile as it was.
C5_EveryCallCounts ==
    [][(last'.endpoint = "dialogue" /\ last'.header \in Credentialed) =>
          /\ HistoryCount(SESSION_PROFILES', IdOf(last'.header))
                = HistoryCount(SESSION_PROFILES, IdOf(last'.header)) + 1
          /\ OthersUntouched(IdOf(last'.header))]_vars

\* C5 (amended): every dialogue call made with a credential that returns ok
\* adds exactly 1 to the turn count of the credential's user; a call that ends
\* with the 500 of a failed first external call adds nothing; either leaves
\* every other user's profile as it was.
C5_EveryOkCallCounts ==
    [][(last'.endpoint = "dialogue" /\ last'.header \in Credentialed) =>
          /\ IdOf(last'.header) \in DOMAIN SESSION_PROFILES'
          /\ HistoryCount(SESSION_PROFILES', IdOf(last'.header))
                = HistoryCount(SESSION_PROFILES, IdOf(last'.header))
                    + (IF last'.status = 200 THEN 1 ELSE 0)
          /\ OthersUntouched(IdOf(last'.header))]_vars

\* C5 witness: the second of two calls of one user, another user's profile
\* being there.
C5_Witness ==
    /\ IsDialogueOk
    /\ last.header = HdrAlice2
    /\ DOMAIN SESSION_PROFILES = {IdAlice, IdBob}
    /\ SESSION_PROFILES[IdAlice].history_count = 2
    /\ SESSION_PROFILES[IdAlice].persona = "Socrates"

HasDigit(s) == \E k \in 1..Len(s) : s[k] \in Digits

\* C6: a credentialed dialogue call ends with 500 exactly when the first
\* external call fails.  When it succeeds the call returns ok and one ai turn,
\* the stored follow-up; a second call that is made and fails or gives no
\* number only makes the confidence 50, and a third call that fails or gives no
\* JSON object only leaves the concept counts as they were.
C6_OnlyFirstCallFails ==
    (last.endpoint = "dialogue" /\ last.header \in Credentialed) =>
        /\ last.status = 500 <=> ~last.replies[1].ok
        /\ last.status \in {200, 500}
        /\ last.status = 200 =>
              /\ last.body.status = "ok"
              /\ Len(last.body.new_turns) = 1
              /\ last.body.new_turns[1].role = "ai"
              /\ last.body.new_turns[1].text = LastRecord.follow_up
              /\ Len(last.replies) = 3
              /\ ("call2" \in {last.steps[k] : k \in 1..Len(last.steps)}
                    /\ (~last.replies[2].ok \/ ~HasDigit(last.replies[2].text)))
                  => last.body.confidence = Num(DefaultConfidence)
              /\ (~last.replies[3].ok \/ ObjectsIn(last.replies[3].text) = {})
                  => SESSION_PROFILES[LastRecord.user].concept_counts = EmptyDict
              /\ SESSION_PROFILES[LastRecord.user].history_count = 1

\* C6 witness: a reply that does not parse, then a failed second and a failed
\* third call.
C6_Witness ==
    /\ IsDialogueOk
    /\ ObjectsIn(RawText) = {}
    /\ ~last.replies[2].ok
    /\ ~last.replies[3].ok
    /\ last.body.confidence = Num(DefaultConfidence)

\* The records of the caller's view: those of the caller's user identifier, in
\* their order, or all of them for a caller without a token.
ViewOf(header) ==
    IF header \in Credentialed
    THEN SelectSeq(REASONING_TRACE, LAMBDA t : t.user = IdOf(header))
    ELSE REASONING_TRACE

FlawsOf(records) ==
    Cardinality({i \in 1..Len(records) :
                    /\ records[i].detected_issue \notin {None, Str(<<>>), List(<<>>), Num(0)}
                    /\ records[i].detected_issue # Str(<<"(none)">>)})

\* C7: the summary's total is the number of records in the caller's view, its
\* flaws the number of those whose detected issue is present and not "(none)",
\* its score max(0, 100 - 8 * flaws): a score in [0, 100], no higher than the
\* score of any smaller number of flaws, and 100, 0, 0 for no records.
C7_SummaryFormula ==
    last.endpoint = "summary" =>
        /\ last.body.total = Len(ViewOf(last.header))
        /\ last.body.flaws = FlawsOf(ViewOf(last.header))
        /\ last.body.score =
              IF 100 - 8 * last.body.flaws > 0 THEN 100 - 8 * last.body.flaws ELSE 0
        /\ last.body.score \in 0..100
        /\ \A fewer \in 0..last.body.flaws :
              last.body.score <= (IF 100 - 8 * fewer > 0 THEN 100 - 8 * fewer ELSE 0)
        /\ ViewOf(last.header) = <<>> =>
              (last.body.score = 100 /\ last.body.flaws = 0 /\ last.body.total = 0)

\* C7 witness: thirteen flaws in Alice's view, which holds fewer records than
\* the trace: 100 - 8 * 13 is below 0.
C7_Witness ==
    /\ last.endpoint = "summary"
    /\ last.header = HdrAlice2
    /\ last.body.flaws = 13
    /\ last.body.score = 0
    /\ last.body.total < Len(REASONING_TRACE)

\* C8: the trace a credentialed caller gets is exactly the records of the
\* first eight characters of its token, in insertion order, and a caller
\* without a token gets the whole REASONING_TRACE; a dialogue call made under
\* another user identifier changes neither the trace nor the summary a
\* credentialed caller would get.
C8_TraceIsOwnRecords ==
    /\ [](last.endpoint = "trace" => last.body.trace = ViewOf(last.header))
    /\ [][last'.endpoint = "dialogue" =>
            \A h \in Credentialed :
                (last'.header \in Credentialed /\ IdOf(h) # IdOf(last'.header)) =>
                    /\ view(REASONING_TRACE', h) = view(REASONING_TRACE, h)
                    /\ summary(view(REASONING_TRACE', h)) = summary(view(REASONING_TRACE, h))]_vars

\* C8 witness: Alice's second credential reads a record made under her first,
\* and not Bob's.
C8_Witness ==
    /\ last.endpoint = "trace"
    /\ last.header = HdrAlice2
    /\ Len(last.body.trace) = 1
    /\ last.body.trace[1].student_claim = ReqPlato.student_text
    /\ Len(REASONING_TRACE) = 2

\* The words of a text: its longest runs of letters, digits and "_".
WordSpans(text) ==
    {ij \in (1..Len(text)) \X (1..Len(text)) :
        /\ ij[1] <= ij[2]
        /\ \A k \in ij[1]..ij[2] : text[k] \in WordChars
        /\ (ij[1] = 1 \/ text[ij[1] - 1] \notin WordChars)
        /\ (ij[2] = Len(text) \/ text[ij[2] + 1] \notin WordChars)}

\* Those of at least four letters, nothing but letters, the first a capital.
CapitalisedSpans(text) ==
    {ij \in WordSpans(text) :
        /\ ij[2] - ij[1] + 1 >= 4
        /\ text[ij[1]] \in UpperChars
        /\ \A k \in ij[1]..ij[2] : text[k] \in Letters}

Word(text, ij) == SubSeq(text, ij[1], ij[2])

\* ... that no earlier one equals.
FirstSeenSpans(text) ==
    {ij \in CapitalisedSpans(text) :
        \A kl \in CapitalisedSpans(text) : kl[1] < ij[1] => Word(text, kl) # Word(text, ij)}

\* L is the capitalised words of the text, each once, in the order they are
\* first seen, cut to six.
IsTermList(L, text) ==
    LET spans == FirstSeenSpans(text)
        rank(ij) == Cardinality({kl \in spans : kl[1] <= ij[1]})
    IN  /\ Len(L) = min(Cardinality(spans), 6)
        /\ \A ij \in spans : rank(ij) <= 6 => L[rank(ij)] = Str(Word(text, ij))

GreedySpanParses(s) ==
    /\ Positions(s, "{") # {}
    /\ \E j \in Positions(s, "}") : j > Min(Positions(s, "{"))
    /\ json_loads(SubSeq(s, Min(Positions(s, "{")), Max(Positions(s, "}")))).ok

\* C9: a credentialed extract_terms call whose model call fails, or whose
\* reply holds no brace-delimited text that parses, returns {terms: L}, L the
\* capitalised words of at least four letters of the student text, each once
\* in first-seen order, at most six (Justice, Virtue, Socrates for the
\* example); when the reply parses, the parsed object is returned instead.
C9_FallbackTerms ==
    (last.endpoint = "extract_terms" /\ last.status = 200) =>
        IF last.replies[1].ok /\ GreedySpanParses(last.replies[1].text)
        THEN last.body = json_loads(SubSeq(last.replies[1].text,
                                           Min(Positions(last.replies[1].text, "{")),
                                           Max(Positions(last.replies[1].text, "}")))).data
        ELSE /\ DOMAIN last.body = {"terms"}
             /\ last.body["terms"].type = "list"
             /\ IsTermList(last.body["terms"].items, last.req.student_text.s)
             /\ last.req.student_text.s = TextJustice =>
                   last.body["terms"].items
                       = << Str(<<"J", "u", "s", "t", "i", "c", "e">>),
                            Str(<<"V", "i", "r", "t", "u", "e">>),
                            Str(<<"S", "o", "c", "r", "a", "t", "e", "s">>) >>

\* C9 witness: a reply that does not parse, and a text of eight capitalised
\* words with repeats: six terms come back.
C9_Witness ==
    /\ last.endpoint = "extract_terms"
    /\ last.status = 200
    /\ last.replies[1] = TermsBroken
    /\ last.req.student_text.s = TextMany
    /\ Len(last.body["terms"].items) = 6
    /\ Cardinality(CapitalisedSpans(TextMany)) > Cardinality(FirstSeenSpans(TextMany))
    /\ Cardinality(FirstSeenSpans(TextMany)) > 6

IsPrefix(s, t) == Len(s) <= Len(t) /\ SubSeq(t, 1, Len(s)) = s

\* C10: no step removes, reorders or changes a Turn or a TraceRecord, or
\* deletes a profile; a successful dialogue call appends one student Turn,
\* then one ai Turn, and one TraceRecord, all three of the caller's user
\* identifier; every other request leaves CONVERSATIONS and REASONING_TRACE as
\* they were.
C10_AppendOnly ==
    [][/\ IsPrefix(CONVERSATIONS, CONVERSATIONS')
       /\ IsPrefix(REASONING_TRACE, REASONING_TRACE')
       /\ DOMAIN SESSION_PROFILES \subseteq DOMAIN SESSION_PROFILES'
       /\ IF last'.endpoint = "dialogue" /\ last'.status = 200
          THEN /\ Len(CONVERSATIONS') = Len(CONVERSATIONS) + 2
               /\ Len(REASONING_TRACE') = Len(REASONING_TRACE) + 1
               /\ CONVERSATIONS'[Len(CONVERSATIONS) + 1].role = "student"
               /\ CONVERSATIONS'[Len(CONVERSATIONS) + 1].text = last'.req.student_text
               /\ CONVERSATIONS'[Len(CONVERSATIONS) + 2].role = "ai"
               /\ CONVERSATIONS'[Len(CONVERSATIONS) + 1].user = IdOf(last'.header)
               /\ CONVERSATIONS'[Len(CONVERSATIONS) + 2].user = IdOf(last'.header)
               /\ REASONING_TRACE'[Len(REASONING_TRACE) + 1].user = IdOf(last'.header)
               /\ REASONING_TRACE'[Len(REASONING_TRACE) + 1].student_claim
                     = last'.req.student_text
          ELSE /\ CONVERSATIONS' = CONVERSATIONS
               /\ REASONING_TRACE' = REASONING_TRACE]_vars

\* C10 witness: a failed dialogue call of a new user after another user's
\* exchange.
C10_Witness ==
    /\ last.endpoint = "dialogue"
    /\ last.status = 500
    /\ last.header = HdrBob
    /\ Len(CONVERSATIONS) = 2
    /\ CONVERSATIONS[1].user = IdAlice
    /\ DOMAIN SESSION_PROFILES = {IdAlice, IdBob}

\* ================================================= SpecConcurrent: dialogue
\* requests in flight together.  A request runs from one external call to the
\* next without a break and can be overtaken only while it waits for a reply:
\* the widest interleaving the handlers allow (the calls in the source block,
\* so the server itself runs each request whole, which is one of these runs).
Done(r, status) == [pending[r] EXCEPT !.pc = "done", !.status = status]

\* Mutant of finish_profile: the turn count is added inside the try block, so
\* a failed third call skips it.
finish_inside_try(profile, t_raw) ==
    IF t_raw.ok
    THEN bump_history([profile EXCEPT !.concept_counts = update_concepts(@, t_raw)])
    ELSE profile

\* Lines 160-174: the concept counts, then the turn count.
finish_profile(profile, t_raw) ==
    bump_history([profile EXCEPT !.concept_counts = update_concepts(@, t_raw)])

\* Lines 74-101: up to the first external call.
start(r, header, req) ==
    LET token == extract_token(header)
        user_id == user_id_of(token)
    IN  /\ pending[r].pc = "idle"
        /\ \A q \in Requests : q < r => pending[q].pc # "idle"
        /\ IF token = <<>> THEN
               /\ pending' = [pending EXCEPT ![r] =
                      InFlight("done", header, req, <<>>, NotStarted.a, None, 0, 401)]
               /\ UNCHANGED SESSION_PROFILES
           ELSE
               /\ SESSION_PROFILES' = ensure_profile(SESSION_PROFILES, user_id, req.persona)
               /\ pending' = [pending EXCEPT ![r] =
                      InFlight("call1", header, req, user_id, NotStarted.a, None, 0, 0)]
        /\ UNCHANGED <<CONVERSATIONS, REASONING_TRACE, clock, last>>

\* Lines 144-157, up to the third external call.
persist(r, a, confidence) ==
    /\ CONVERSATIONS' = CONVERSATIONS
            \o <<Turn("student", pending[r].req.student_text, clock, pending[r].user),
                 Turn("ai", a.question, clock + 1, pending[r].user)>>
    /\ REASONING_TRACE' =
            Append(REASONING_TRACE,
                   TraceRecord(pending[r].req, a, confidence, clock, pending[r].user))
    /\ clock' = clock + 2
    /\ pending' = [pending EXCEPT ![r] =
           [@ EXCEPT !.pc = "call3", !.a = a, !.confidence = confidence, !.ts = clock]]
    /\ UNCHANGED <<SESSION_PROFILES, last>>

\* Lines 103-129: the first reply comes back.
first_reply(r, raw) ==
    /\ pending[r].pc = "call1"
    /\ IF ~raw.ok THEN
           /\ pending' = [pending EXCEPT ![r] = Done(r, 500)]
           /\ UNCHANGED <<stores, clock, last>>
       ELSE IF needs_estimate(parse_reply(raw.text).confidence) THEN
           /\ pending' = [pending EXCEPT ![r] =
                  [@ EXCEPT !.pc = "call2", !.a = parse_reply(raw.text)]]
           /\ UNCHANGED <<stores, clock, last>>
       ELSE persist(r, parse_reply(raw.text), parse_reply(raw.text).confidence)

\* Lines 135-157: the estimator's reply comes back.
second_reply(r, c_raw) ==
    /\ pending[r].pc = "call2"
    /\ persist(r, pending[r].a, estimate_confidence(c_raw))

\* Lines 165-176: the terms come back.
third_reply(r, t_raw) ==
    /\ pending[r].pc = "call3"
    /\ SESSION_PROFILES' = Put(SESSION_PROFILES, pending[r].user,
                               finish_profile(SESSION_PROFILES[pending[r].user], t_raw))
    /\ pending' = [pending EXCEPT ![r] = Done(r, 200)]
    /\ UNCHANGED <<CONVERSATIONS, REASONING_TRACE, clock, last>>

ConcurrentCallers ==
    {Caller(HdrAlice1, ReqPlato), Caller(HdrBob, ReqOther), Caller(HdrBlank, ReqOther)}

Start == \E r \in Requests, c \in ConcurrentCallers : start(r, c.header, c.req)

FirstReply == \E r \in Requests, raw \in {Failed, RawPlain, RawClean} : first_reply(r, raw)

SecondReply == \E r \in Requests, c_raw \in {Failed, ConfEightyFive} : second_reply(r, c_raw)

ThirdReply == \E r \in Requests, t_raw \in {Failed, TermsAB} : third_reply(r, t_raw)

NextConcurrent == Start \/ FirstReply \/ SecondReply \/ ThirdReply

SpecConcurrent == Init /\ [][NextConcurrent]_vars

\* ------------------------------------------------------------------ C11, C12
Quiescent == \A r \in Requests : pending[r].pc \in {"idle", "done"}

Succeeded == {r \in Requests : pending[r].pc = "done" /\ pending[r].status = 200}

SucceededOf(user) == {r \in Succeeded : pending[r].user = user}

Users == {IdAlice, IdBob}

\* Where request r's student Turn sits in CONVERSATIONS.
StudentTurnAt(r, i) ==
    CONVERSATIONS[i] = Turn("student", pending[r].req.student_text, pending[r].ts, pending[r].user)

AiTurnAt(r, i) ==
    CONVERSATIONS[i] = Turn("ai", pending[r].a.question, pending[r].ts + 1, pending[r].user)

RecordAt(r, i) ==
    REASONING_TRACE[i] = TraceRecord(pending[r].req, pending[r].a, pending[r].confidence,
                                     pending[r].ts, pending[r].user)

\* C11: when dialogue requests interleave at the external-call boundaries, no
\* update is lost or duplicated: once all have finished, CONVERSATIONS holds
\* exactly two Turns and REASONING_TRACE exactly one record per successful
\* request, each student Turn is immediately followed by its own ai Turn, and
\* every user's turn count equals the number of that user's successful
\* requests.
C11_NoLostUpdate ==
    Quiescent =>
        /\ Len(CONVERSATIONS) = 2 * Cardinality(Succeeded)
        /\ Len(REASONING_TRACE) = Cardinality(Succeeded)
        /\ \A r \in Succeeded :
              /\ Cardinality({i \in DOMAIN CONVERSATIONS : StudentTurnAt(r, i)}) = 1
              /\ Cardinality({i \in DOMAIN CONVERSATIONS : AiTurnAt(r, i)}) = 1
              /\ Cardinality({i \in DOMAIN REASONING_TRACE : RecordAt(r, i)}) = 1
              /\ \A i \in DOMAIN CONVERSATIONS :
                    StudentTurnAt(r, i) => i < Len(CONVERSATIONS) /\ AiTurnAt(r, i + 1)
        /\ \A u \in Users : HistoryCount(SESSION_PROFILES, u) = Cardinality(SucceededOf(u))

\* Every request is the same user's and succeeded, and they overlapped: request
\* 1 started first, yet request 2 appended its Turns first.
C11_Witness ==
    /\ Succeeded = Requests
    /\ \A r \in Requests : pending[r].user = IdAlice
    /\ pending[2].ts < pending[1].ts
    /\ HistoryCount(SESSION_PROFILES, IdAlice) = MaxRequests

\* C12: within one dialogue call the third external call and the concept
\* counts come before the Turns and the TraceRecord are appended, so while a
\* call waits for its third reply the stores hold none of its Turns nor its
\* TraceRecord, and no user has more TraceRecords than counted turns.
C12_PersistAfterTerms ==
    /\ \A r \in Requests : pending[r].pc = "call3" =>
          /\ \A i \in DOMAIN CONVERSATIONS : ~StudentTurnAt(r, i) /\ ~AiTurnAt(r, i)
          /\ \A i \in DOMAIN REASONING_TRACE : ~RecordAt(r, i)
    /\ \A u \in Users : Len(filter_user(REASONING_TRACE, u)) <= HistoryCount(SESSION_PROFILES, u)

\* ------------------------------------------------------------------ C13
CallerId == IdOf(last'.header)

\* C13 as stated: after a credentialed POST /api/extract_terms the caller has a
\* profile in SESSION_PROFILES, and a profile the caller already had differs
\* from what it was before the call.
C13_ExtractTermsTouchesProfile ==
    [][(last'.endpoint = "extract_terms" /\ last'.header \in Credentialed) =>
          /\ CallerId \in DOMAIN SESSION_PROFILES'
          /\ CallerId \in DOMAIN SESSION_PROFILES =>
                SESSION_PROFILES'[CallerId] # SESSION_PROFILES[CallerId]]_vars

\* C13 (amended): a profile is created, with the request's persona, by the
\* user's first credentialed POST /api/dialogue call and is changed by every
\* later successful dialogue call, which adds one to its turn count and keeps
\* its persona; POST /api/extract_terms and the two GET endpoints neither
\* create nor change a profile: SESSION_PROFILES is after the call what it was
\* before.
C13_ProfileLifecycle ==
    [][/\ last'.endpoint \in {"extract_terms", "trace", "summary"} =>
             SESSION_PROFILES' = SESSION_PROFILES
       /\ (last'.endpoint = "dialogue" /\ last'.header \in Credentialed) =>
             /\ CallerId \in DOMAIN SESSION_PROFILES'
             /\ SESSION_PROFILES'[CallerId].history_count =
                    HistoryCount(SESSION_PROFILES, CallerId)
                        + (IF last'.status = 200 THEN 1 ELSE 0)
             /\ SESSION_PROFILES'[CallerId].persona =
                    IF CallerId \in DOMAIN SESSION_PROFILES
                    THEN SESSION_PROFILES[CallerId].persona
                    ELSE last'.req.persona]_vars

\* A credentialed extract_terms call has answered, its caller has no profile,
\* and another user, who has talked to the tutor, has one.
C13_Witness ==
    /\ last.endpoint = "extract_terms"
    /\ last.status = 200
    /\ last.header = HdrBob
    /\ IdBob \notin DOMAIN SESSION_PROFILES
    /\ HistoryCount(SESSION_PROFILES, IdAlice) = 1

====
